---- MODULE Spec2Model ----
(***************************************************************************)
(* Model of ns3::LiIonBatteryModel (src/src/energy/model/                  *)
(* li-ion-battery-model.cc): the energy source state machine, its load     *)
(* history, the RV discharge transform and the Li-Ion voltage curve,       *)
(* driven by a discrete-event clock.                                       *)
(*                                                                         *)
(* Numbers.  The code computes in double; the model computes in fixed      *)
(* point with three decimals (Scale = 1000):                               *)
(*   times            whole seconds (multiples of Step)                    *)
(*   currents, loads  mA  (CalculateTotalCurrent () * 1000)                *)
(*   A function       1/1000 minute                                        *)
(*   alpha            mA * minute                                          *)
(*   voltages         mV                                                   *)
(*   capacities       mAh (alpha * 1000 / 3600)                            *)
(*   energies         J                                                    *)
(***************************************************************************)
EXTENDS Integers, Sequences, FiniteSets, TLC

\* ------------------------------------------------------------------ bounds
MaxSteps == 2          \* the clock advances at most MaxSteps times
MaxCalls == 2          \* at most MaxCalls calls from outside the scheduler

\* ------------------------------------------------- configuration (GetTypeId)
Scale == 1000
Step == 60                          \* granularity of the simulated clock, s
m_initialEnergyJ == 31752           \* LiIonBatteryModelInitialEnergyJ
m_lowBatteryTh == 100               \* 0.10, in 1/1000
m_eFull == 4050                     \* InitialCellVoltage, mV
m_eNom == 3600                      \* NominalCellVoltage, mV
m_eExp == 3600                      \* ExpCellVoltage, mV
m_qRated == 2450                    \* RatedCapacity, mAh
m_qNom == 1100                      \* NomCapacity, mAh
m_qExp == 1200                      \* ExpCapacity, mAh
m_internalResistance == 83          \* InternalResistance, mOhm
m_typCurrent == 2330                \* TypCurrent, mA
m_minVoltTh == 3300                 \* ThresholdVoltage, mV
m_beta == 637                       \* RvBatteryModelBetaValue, 1/1000
m_energyUpdateInterval == 2 * Step  \* PeriodicEnergyUpdateInterval, s

\* inputs of the environment
Currents == {0, 1000, 12000}        \* total device current, mA
EnergyArgs == {-1, 0, 30000}        \* arguments of Decrease/Increase, J

NoEvent == 0                        \* a default-constructed EventId
Call(name, args) == [name |-> name, args |-> args]
NoValue == <<>>                     \* the last operation returned nothing

VARIABLES
  now,                 \* Simulator::Now (), s
  finished,            \* Simulator::IsFinished ()
  events,              \* the scheduler's pending events of this source
  deviceCurrent,       \* sum of the registered devices' currents, mA
  m_remainingEnergyJ,
  m_supplyVoltageV,
  m_lastUpdateTime,
  m_lastUpdateAlpha,
  m_drainedCapacity,
  m_load,
  m_timeStamps,
  m_previousLoad,
  m_lastSampleTime,
  m_energyUpdateEvent, \* uid of the event the handle refers to
  initialized,         \* DoInitialize has run
  disposed,            \* DoDispose has run
  aborted,             \* an NS_ASSERT has failed
  notifyCount,         \* number of NotifyEnergyDrained calls so far
  lastOp,              \* the operation executed last and its arguments
  ret,                 \* <<value>> returned by the last operation, if any
  lastNotified,        \* did the last operation call NotifyEnergyDrained
  quiet,               \* an update completed and since then neither the
                       \* clock advanced nor Decrease/Increase was called
  nCalls               \* number of calls from outside the scheduler

vars == <<now, finished, events, deviceCurrent, m_remainingEnergyJ,
          m_supplyVoltageV, m_lastUpdateTime, m_lastUpdateAlpha,
          m_drainedCapacity, m_load, m_timeStamps, m_previousLoad,
          m_lastSampleTime, m_energyUpdateEvent, initialized, disposed,
          aborted, notifyCount, lastOp, ret, lastNotified, quiet, nCalls>>

\* --------------------------------------------------------------- std::exp
\* exp (-n) for whole n >= 0, in 1/1000
ExpTable == <<1000, 368, 135, 50, 18, 7, 2, 1>>

ExpInt(n) == IF n < Len(ExpTable) THEN ExpTable[n + 1] ELSE 0

\* exp (-f / 1000) for 0 <= f < 1000, in 1/1000 (Taylor polynomial)
ExpFrac(f) ==
  LET f2 == (f * f) \div Scale
      f3 == (f2 * f) \div Scale
      f4 == (f3 * f) \div Scale
      f5 == (f4 * f) \div Scale
  IN  Scale - f + (f2 \div 2) - (f3 \div 6) + (f4 \div 24) - (f5 \div 120)

\* std::exp (-x / 1000), in 1/1000
ExpNeg(x) ==
  IF x < 0
    THEN Scale - x + (((x * x) \div Scale) \div 2)
    ELSE (ExpInt(x \div Scale) * ExpFrac(x % Scale)) \div Scale

Abs(x) == IF x < 0 THEN -x ELSE x

\* ------------------------------------------------------- RvModelAFunction
RECURSIVE RvSum(_, _, _, _)
RvSum(m, firstDelta, secondDelta, beta) ==
  IF m > 10 THEN 0
  ELSE LET square == ((beta * beta) \div Scale) * m * m
       IN  ((ExpNeg(square * firstDelta) - ExpNeg(square * secondDelta))
              * Scale) \div square
           + RvSum(m + 1, firstDelta, secondDelta, beta)

RvModelAFunction(t, sk, sk_1, beta) ==
  LET firstDelta == (t - sk) \div 60
      secondDelta == (t - sk_1) \div 60
      delta == (sk - sk_1) \div 60
  IN  delta * Scale + 2 * RvSum(1, firstDelta, secondDelta, beta)

\* -------------------------------------------------------------- Discharge
\* variant: a changed load is recorded without its new timestamp
RecordLoad_NoPush(load, t) ==
  IF load # m_previousLoad
    THEN [load |-> Append(m_load, load),
          previousLoad |-> load,
          timeStamps |->
            [m_timeStamps EXCEPT ![Len(m_timeStamps)] = m_lastSampleTime],
          lastSampleTime |-> t]
    ELSE [load |-> m_load,
          previousLoad |-> m_previousLoad,
          timeStamps |-> [m_timeStamps EXCEPT ![Len(m_timeStamps)] = t],
          lastSampleTime |-> t]

\* variant: every sample is recorded, also when the load did not change
RecordLoad_AlwaysAppend(load, t) ==
  [load |-> Append(m_load, load),
   previousLoad |-> load,
   timeStamps |->
     Append([m_timeStamps EXCEPT ![Len(m_timeStamps)] = m_lastSampleTime], t),
   lastSampleTime |-> t]

\* variant: a changed load closes the open segment at the call time
RecordLoad_CloseAtNow(load, t) ==
  IF load # m_previousLoad
    THEN [load |-> Append(m_load, load),
          previousLoad |-> load,
          timeStamps |->
            Append([m_timeStamps EXCEPT ![Len(m_timeStamps)] = t], t),
          lastSampleTime |-> t]
    ELSE [load |-> m_load,
          previousLoad |-> m_previousLoad,
          timeStamps |-> [m_timeStamps EXCEPT ![Len(m_timeStamps)] = t],
          lastSampleTime |-> t]

\* the load history after Discharge (load, t) has recorded the sample
RecordLoad(load, t) ==
  IF load # m_previousLoad
    THEN [load |-> Append(m_load, load),
          previousLoad |-> load,
          timeStamps |->
            Append([m_timeStamps EXCEPT ![Len(m_timeStamps)] = m_lastSampleTime],
                   t),
          lastSampleTime |-> t]
    ELSE [load |-> m_load,
          previousLoad |-> m_previousLoad,
          timeStamps |->
            IF m_timeStamps # <<>>
              THEN [m_timeStamps EXCEPT ![Len(m_timeStamps)] = t]
              ELSE m_timeStamps,
          lastSampleTime |-> t]

\* variant: only the open segment contributes
AlphaSum_LastOnly(i, load, timeStamps, t) ==
  (load[Len(load)]
     * RvModelAFunction(t, timeStamps[Len(timeStamps)],
                        timeStamps[Len(timeStamps) - 1], m_beta)) \div Scale

\* sum of the contributions of segments i .. size-1 (0-based i as in the code)
RECURSIVE AlphaSum(_, _, _, _)
AlphaSum(i, load, timeStamps, t) ==
  IF i >= Len(timeStamps) THEN 0
  ELSE (load[i] * RvModelAFunction(t, timeStamps[i + 1], timeStamps[i], m_beta))
         \div Scale
       + AlphaSum(i + 1, load, timeStamps, t)

\* calculatedAlpha of Discharge for the recorded history h at time t
CalculatedAlpha(h, t) ==
  IF Len(h.timeStamps) = 1
    THEN (h.load[1] * RvModelAFunction(t, t, 0, m_beta)) \div Scale
    ELSE AlphaSum(1, h.load, h.timeStamps, t)

\* NS_ASSERT (m_load.size () == m_timeStamps.size () - 1)
SizesAgree(h) == Len(h.load) = Len(h.timeStamps) - 1

\* ------------------------------------------------------------- GetVoltage
MinusInfinity == -100000       \* E0 - K * qRated / 0.0 in double

GetVoltage(i, it) ==
  LET A == m_eFull - m_eExp
      B == (3 * Scale * Scale) \div m_qExp
      K == Abs(((m_eFull - m_eNom
                 + (A * (ExpNeg((B * m_qNom) \div Scale) - Scale)) \div Scale)
                * (m_qRated - m_qNom)) \div m_qNom)
      E0 == m_eFull + K + (m_internalResistance * m_typCurrent) \div Scale - A
  IN  IF m_qRated = it
        THEN MinusInfinity
        ELSE LET E == E0 - (K * m_qRated) \div (m_qRated - it)
                         + (A * ExpNeg((B * it) \div Scale)) \div Scale
             IN  E - (m_internalResistance * i) \div Scale

\* ----------------------------------------------- CalculateRemainingEnergy
CalculateTotalCurrent == deviceCurrent

\* variant: the alpha of the previous update is not subtracted
EnergyToDecrease_WholeAlpha(calculatedAlpha) ==
  (calculatedAlpha * m_supplyVoltageV) \div Scale

\* variant: the increment is priced at the configured initial voltage
EnergyToDecrease_InitialVoltage(calculatedAlpha) ==
  ((calculatedAlpha - m_lastUpdateAlpha) * m_eFull) \div Scale

\* energyToDecreaseJ = (calculatedAlpha - m_lastUpdateAlpha) * m_supplyVoltageV
EnergyToDecrease(calculatedAlpha) ==
  ((calculatedAlpha - m_lastUpdateAlpha) * m_supplyVoltageV) \div Scale

\* variant: the alpha is memoized only when the energy is not clamped
CalculateRemainingEnergy_AlphaInElse(t) ==
  LET totalCurrentA == CalculateTotalCurrent
      h == RecordLoad(totalCurrentA, t)
      calculatedAlpha == CalculatedAlpha(h, t)
      energyToDecreaseJ == EnergyToDecrease(calculatedAlpha)
      clamp == m_remainingEnergyJ < energyToDecreaseJ
      cap == IF clamp THEN m_drainedCapacity
                      ELSE (calculatedAlpha * Scale) \div 3600
  IN  [hist |-> h,
       sizesOk |-> SizesAgree(h),
       remainingEnergyJ |-> IF clamp THEN 0
                            ELSE m_remainingEnergyJ - energyToDecreaseJ,
       drainedCapacity |-> cap,
       supplyVoltageV |-> GetVoltage(totalCurrentA, cap),
       lastUpdateAlpha |-> IF clamp THEN m_lastUpdateAlpha
                                    ELSE calculatedAlpha]

\* the fields CalculateRemainingEnergy leaves behind at time t
CalculateRemainingEnergy(t) ==
  LET totalCurrentA == CalculateTotalCurrent
      h == RecordLoad(totalCurrentA, t)
      calculatedAlpha == CalculatedAlpha(h, t)
      energyToDecreaseJ == EnergyToDecrease(calculatedAlpha)
      clamp == m_remainingEnergyJ < energyToDecreaseJ
      cap == IF clamp THEN m_drainedCapacity
                      ELSE (calculatedAlpha * Scale) \div 3600
  IN  [hist |-> h,
       sizesOk |-> SizesAgree(h),
       remainingEnergyJ |-> IF clamp THEN 0
                            ELSE m_remainingEnergyJ - energyToDecreaseJ,
       drainedCapacity |-> cap,
       supplyVoltageV |-> GetVoltage(totalCurrentA, cap),
       lastUpdateAlpha |-> calculatedAlpha]

\* ------------------------------------------------------------ the scheduler
\* variant: the pending event is left in the queue
Cancel_Skipped(evs, id) == evs

\* EventId::Cancel: the event the handle refers to leaves the queue
Cancel(evs, id) == {e \in evs : e.uid # id}

\* the uid of a new event differs from that of every pending event
FreshUid(evs) ==
  CHOOSE u \in 1 .. Cardinality(evs) + 1 : \A e \in evs : e.uid # u

\* Simulator::Schedule (delay, ...): a new event, due at now + delay
Schedule(evs, delay) ==
  LET u == FreshUid(evs)
  IN  [events |-> evs \cup {[uid |-> u, ts |-> now + delay]}, id |-> u]

\* variant: the threshold fraction is not scaled by the initial energy
LowBattery_Unscaled(remainingEnergyJ) ==
  remainingEnergyJ * Scale <= m_lowBatteryTh

\* m_remainingEnergyJ <= m_lowBatteryTh * m_initialEnergyJ
LowBattery(remainingEnergyJ) ==
  remainingEnergyJ * Scale <= m_lowBatteryTh * m_initialEnergyJ

\* m_supplyVoltageV <= m_minVoltTh
LowVoltage(supplyVoltageV) == supplyVoltageV <= m_minVoltTh

\* ---------------------------------------------------------------- Init
\* the state after the constructor and the attribute setters, at time 0
Init ==
  /\ now = 0
  /\ finished = FALSE
  /\ events = {}
  /\ deviceCurrent \in Currents
  /\ m_remainingEnergyJ = m_initialEnergyJ
  /\ m_supplyVoltageV = m_eFull
  /\ m_lastUpdateTime = 0
  /\ m_lastUpdateAlpha = 0
  /\ m_drainedCapacity = 0
  /\ m_load = <<>>
  /\ m_timeStamps = <<0>>
  /\ m_previousLoad = -1
  /\ m_lastSampleTime = 0
  /\ m_energyUpdateEvent = NoEvent
  /\ initialized = FALSE
  /\ disposed = FALSE
  /\ aborted = FALSE
  /\ notifyCount = 0
  /\ lastOp = Call("constructor", <<>>)
  /\ ret = NoValue
  /\ lastNotified = FALSE
  /\ quiet = FALSE
  /\ nCalls = 0

history == <<m_load, m_timeStamps, m_previousLoad, m_lastSampleTime>>
clock == <<now, finished>>

\* ---------------------------------------------------- UpdateEnergySource
\* HandleEnergyDrainedEvent: NotifyEnergyDrained reaches the device models
HandleEnergyDrainedEvent ==
  /\ notifyCount' = notifyCount + 1
  /\ lastNotified' = TRUE

NoEnergyDrainedEvent ==
  /\ notifyCount' = notifyCount
  /\ lastNotified' = FALSE

\* variant: the finished clock is not looked at
IsFinished_Ignored == FALSE

\* Simulator::IsFinished ()
IsFinished == finished

\* the body of UpdateEnergySource, called with the pending events evs
UpdateEnergySource(evs) ==
  IF IsFinished
    THEN /\ events' = evs
         /\ NoEnergyDrainedEvent
         /\ UNCHANGED <<m_remainingEnergyJ, m_supplyVoltageV, m_lastUpdateTime,
                        m_lastUpdateAlpha, m_drainedCapacity, history,
                        m_energyUpdateEvent, aborted, quiet>>
    ELSE LET cancelled == Cancel(evs, m_energyUpdateEvent)
         IN  \E c \in {CalculateRemainingEnergy(now)} :
               IF ~c.sizesOk
                 THEN /\ aborted' = TRUE
                      /\ events' = cancelled
                      /\ NoEnergyDrainedEvent
                      /\ UNCHANGED <<m_remainingEnergyJ, m_supplyVoltageV,
                                     m_lastUpdateTime, m_lastUpdateAlpha,
                                     m_drainedCapacity, history,
                                     m_energyUpdateEvent, quiet>>
                 ELSE /\ m_load' = c.hist.load
                      /\ m_timeStamps' = c.hist.timeStamps
                      /\ m_previousLoad' = c.hist.previousLoad
                      /\ m_lastSampleTime' = c.hist.lastSampleTime
                      /\ m_remainingEnergyJ' = c.remainingEnergyJ
                      /\ m_drainedCapacity' = c.drainedCapacity
                      /\ m_supplyVoltageV' = c.supplyVoltageV
                      /\ m_lastUpdateAlpha' = c.lastUpdateAlpha
                      /\ m_lastUpdateTime' = now
                      /\ quiet' = TRUE
                      /\ UNCHANGED aborted
                      /\ IF LowBattery(c.remainingEnergyJ)
                           THEN /\ HandleEnergyDrainedEvent
                                /\ events' = cancelled
                                /\ UNCHANGED m_energyUpdateEvent
                           ELSE LET s == Schedule(cancelled,
                                                 m_energyUpdateInterval)
                                IN  /\ NoEnergyDrainedEvent
                                    /\ events' = s.events
                                    /\ m_energyUpdateEvent' = s.id

\* ---------------------------------------------------------------- actions
\* DoInitialize: start the periodic update
DoInitialize ==
  /\ ~aborted /\ ~initialized
  /\ UpdateEnergySource(events)
  /\ initialized' = TRUE
  /\ UNCHANGED disposed
  /\ lastOp' = Call("DoInitialize", <<>>)
  /\ ret' = NoValue
  /\ UNCHANGED <<clock, deviceCurrent, nCalls>>

\* the scheduler runs the pending update event that is due now
Tick ==
  /\ ~aborted /\ ~finished
  /\ \E e \in events :
       /\ e.ts = now
       /\ UpdateEnergySource(events \ {e})
  /\ lastOp' = Call("Tick", <<>>)
  /\ ret' = NoValue
  /\ UNCHANGED <<clock, deviceCurrent, initialized, disposed, nCalls>>

\* a caller invokes UpdateEnergySource directly
ManualUpdate ==
  /\ ~aborted /\ nCalls < MaxCalls
  /\ UpdateEnergySource(events)
  /\ lastOp' = Call("UpdateEnergySource", <<>>)
  /\ nCalls' = nCalls + 1
  /\ ret' = NoValue
  /\ UNCHANGED <<clock, deviceCurrent, initialized, disposed>>

\* variant: the getter returns the stored value without updating
GetRemainingEnergy_Stale ==
  /\ ~aborted /\ nCalls < MaxCalls
  /\ ret' = <<m_remainingEnergyJ>>
  /\ lastOp' = Call("GetRemainingEnergy", <<>>)
  /\ lastNotified' = FALSE
  /\ nCalls' = nCalls + 1
  /\ UNCHANGED <<clock, events, deviceCurrent, m_remainingEnergyJ,
                 m_supplyVoltageV, m_lastUpdateTime, m_lastUpdateAlpha,
                 m_drainedCapacity, history, m_energyUpdateEvent, initialized,
                 disposed,
                 aborted, notifyCount, quiet>>

GetRemainingEnergy ==
  /\ ~aborted /\ nCalls < MaxCalls
  /\ UpdateEnergySource(events)
  /\ ret' = <<m_remainingEnergyJ'>>
  /\ lastOp' = Call("GetRemainingEnergy", <<>>)
  /\ nCalls' = nCalls + 1
  /\ UNCHANGED <<clock, deviceCurrent, initialized, disposed>>

GetEnergyFraction ==
  /\ ~aborted /\ nCalls < MaxCalls
  /\ UpdateEnergySource(events)
  /\ ret' = <<(m_remainingEnergyJ' * Scale) \div m_initialEnergyJ>>
  /\ lastOp' = Call("GetEnergyFraction", <<>>)
  /\ nCalls' = nCalls + 1
  /\ UNCHANGED <<clock, deviceCurrent, initialized, disposed>>

\* variant: the argument is not checked
EnergyArgOk_Unchecked(energyJ) == TRUE

\* NS_ASSERT (energyJ >= 0)
EnergyArgOk(energyJ) == energyJ >= 0

DecreasedEnergy(energyJ) == m_remainingEnergyJ - energyJ

IncreasedEnergy(energyJ) == m_remainingEnergyJ + energyJ

DecreaseRemainingEnergy ==
  /\ ~aborted /\ nCalls < MaxCalls
  /\ \E energyJ \in EnergyArgs :
       /\ lastOp' = Call("DecreaseRemainingEnergy", <<energyJ>>)
       /\ IF ~EnergyArgOk(energyJ)
            THEN /\ aborted' = TRUE
                 /\ NoEnergyDrainedEvent
                 /\ UNCHANGED <<m_remainingEnergyJ, quiet>>
            ELSE /\ m_remainingEnergyJ' = DecreasedEnergy(energyJ)
                 /\ IF LowVoltage(m_supplyVoltageV)
                      THEN HandleEnergyDrainedEvent
                      ELSE NoEnergyDrainedEvent
                 /\ quiet' = FALSE
                 /\ UNCHANGED aborted
  /\ nCalls' = nCalls + 1
  /\ UNCHANGED <<clock, events, deviceCurrent, m_supplyVoltageV,
                 m_lastUpdateTime, m_lastUpdateAlpha, m_drainedCapacity,
                 history, m_energyUpdateEvent, initialized, disposed>>
  /\ ret' = NoValue

IncreaseRemainingEnergy ==
  /\ ~aborted /\ nCalls < MaxCalls
  /\ \E energyJ \in EnergyArgs :
       /\ lastOp' = Call("IncreaseRemainingEnergy", <<energyJ>>)
       /\ IF ~EnergyArgOk(energyJ)
            THEN /\ aborted' = TRUE
                 /\ UNCHANGED <<m_remainingEnergyJ, quiet>>
            ELSE /\ m_remainingEnergyJ' = IncreasedEnergy(energyJ)
                 /\ quiet' = FALSE
                 /\ UNCHANGED aborted
  /\ NoEnergyDrainedEvent
  /\ nCalls' = nCalls + 1
  /\ UNCHANGED <<clock, events, deviceCurrent, m_supplyVoltageV,
                 m_lastUpdateTime, m_lastUpdateAlpha, m_drainedCapacity,
                 history, m_energyUpdateEvent, initialized, disposed>>
  /\ ret' = NoValue

\* a device model changes the current it reports (SetCurrentA)
SetCurrentA ==
  /\ ~aborted
  /\ \E c \in Currents \ {deviceCurrent} : deviceCurrent' = c
  /\ lastOp' = Call("SetCurrentA", <<>>)
  /\ lastNotified' = FALSE
  /\ UNCHANGED <<clock, events, m_remainingEnergyJ, m_supplyVoltageV,
                 m_lastUpdateTime, m_lastUpdateAlpha, m_drainedCapacity,
                 history, m_energyUpdateEvent, initialized, disposed, aborted,
                 notifyCount, quiet, nCalls>>
  /\ ret' = NoValue

\* the clock moves on once the source is initialized (Object::Initialize
\* runs at the start of the simulation) and every event due now has run
AdvanceClock ==
  /\ ~aborted /\ ~finished /\ initialized
  /\ now < MaxSteps * Step
  /\ \A e \in events : e.ts > now
  /\ now' = now + Step
  /\ quiet' = FALSE
  /\ lastOp' = Call("AdvanceClock", <<>>)
  /\ lastNotified' = FALSE
  /\ UNCHANGED <<finished, events, deviceCurrent, m_remainingEnergyJ,
                 m_supplyVoltageV, m_lastUpdateTime, m_lastUpdateAlpha,
                 m_drainedCapacity, history, m_energyUpdateEvent, initialized,
                 disposed,
                 aborted, notifyCount, nCalls>>
  /\ ret' = NoValue

\* Simulator::Stop takes effect: pending events never run
Stop ==
  /\ ~aborted /\ ~finished
  /\ finished' = TRUE
  /\ lastOp' = Call("Stop", <<>>)
  /\ lastNotified' = FALSE
  /\ UNCHANGED <<now, events, deviceCurrent, m_remainingEnergyJ,
                 m_supplyVoltageV, m_lastUpdateTime, m_lastUpdateAlpha,
                 m_drainedCapacity, history, m_energyUpdateEvent, initialized,
                 disposed,
                 aborted, notifyCount, quiet, nCalls>>
  /\ ret' = NoValue

\* DoDispose: teardown of an initialized source; it breaks the reference
\* cycle with the device models and touches nothing else
DoDispose ==
  /\ ~aborted /\ initialized /\ ~disposed
  /\ disposed' = TRUE
  /\ lastOp' = Call("DoDispose", <<>>)
  /\ lastNotified' = FALSE
  /\ ret' = NoValue
  /\ UNCHANGED <<clock, events, deviceCurrent, m_remainingEnergyJ,
                 m_supplyVoltageV, m_lastUpdateTime, m_lastUpdateAlpha,
                 m_drainedCapacity, history, m_energyUpdateEvent, initialized,
                 aborted, notifyCount, quiet, nCalls>>

Next ==
  \/ DoInitialize
  \/ DoDispose
  \/ Tick
  \/ ManualUpdate
  \/ GetRemainingEnergy
  \/ GetEnergyFraction
  \/ DecreaseRemainingEnergy
  \/ IncreaseRemainingEnergy
  \/ SetCurrentA
  \/ AdvanceClock
  \/ Stop

Spec == Init /\ [][Next]_vars

\* ------------------------------------------------- Discharge on its own
\* loads Discharge may be handed, mA: the currents and the value the
\* constructor gives m_previousLoad
Loads == Currents \cup {-1}

\* what m_load[0] may yield when m_load is empty (the read is undefined)
OutOfBoundsLoads == {0, 1000}

\* Discharge (load, now): records the sample and returns calculatedAlpha
Discharge ==
  /\ ~aborted /\ nCalls < MaxCalls
  /\ \E load \in Loads :
       \E h \in {RecordLoad(load, now)} :
         /\ m_load' = h.load
         /\ m_timeStamps' = h.timeStamps
         /\ m_previousLoad' = h.previousLoad
         /\ m_lastSampleTime' = h.lastSampleTime
         /\ lastOp' = Call("Discharge", <<load>>)
         /\ IF ~SizesAgree(h)
              THEN aborted' = TRUE /\ ret' = NoValue
              ELSE IF Len(h.timeStamps) = 1
                THEN \/ aborted' = TRUE /\ ret' = NoValue
                     \/ /\ aborted' = FALSE
                        /\ \E l \in OutOfBoundsLoads :
                             ret' = <<(l * RvModelAFunction(now, now, 0,
                                                            m_beta))
                                        \div Scale>>
                ELSE aborted' = FALSE /\ ret' = <<CalculatedAlpha(h, now)>>
  /\ nCalls' = nCalls + 1
  /\ UNCHANGED <<now, finished, events, deviceCurrent, m_remainingEnergyJ,
                 m_supplyVoltageV, m_lastUpdateTime, m_lastUpdateAlpha,
                 m_drainedCapacity, m_energyUpdateEvent, initialized,
                 disposed, notifyCount, lastNotified, quiet>>

\* the next Discharge call is made at a later time
NextSampleTime ==
  /\ ~aborted
  /\ now < MaxSteps * Step
  /\ now' = now + Step
  /\ UNCHANGED <<finished, events, deviceCurrent, m_remainingEnergyJ,
                 m_supplyVoltageV, m_lastUpdateTime, m_lastUpdateAlpha,
                 m_drainedCapacity, history, m_energyUpdateEvent, initialized,
                 disposed, aborted, notifyCount, lastOp, ret, lastNotified,
                 quiet, nCalls>>

NextDischarge ==
  \/ Discharge
  \/ NextSampleTime

SpecDischarge == Init /\ [][NextDischarge]_vars

\* ================================================================ claims
UpdateNames == {"DoInitialize", "Tick", "UpdateEnergySource",
                "GetRemainingEnergy", "GetEnergyFraction"}
ManualNames == {"UpdateEnergySource", "GetRemainingEnergy",
                "GetEnergyFraction"}

\* the last operation was an update that ran on a running clock
UpdateRan == lastOp.name \in UpdateNames /\ ~finished /\ ~aborted

\* remaining energy at or below lowBatteryThresholdFraction x initialEnergyJ
AtOrBelowThreshold ==
  m_remainingEnergyJ * Scale <= m_lowBatteryTh * m_initialEnergyJ

sourceFields == <<m_remainingEnergyJ, m_supplyVoltageV, m_lastUpdateTime,
                  m_lastUpdateAlpha, m_drainedCapacity, m_load, m_timeStamps,
                  m_previousLoad, m_lastSampleTime, m_energyUpdateEvent>>

\* C1: over any sequence of ticks, manual updates, getters and
\* DecreaseRemainingEnergy calls the depletion notification is delivered to
\* the device models exactly once, and never again afterwards.
C1_NotifiedAtMostOnce == notifyCount <= 1

\* C2: Depleted is terminal: once the depletion notification has fired, no
\* periodic update event is pending and none is ever scheduled again.
C2_DepletedIsTerminal == notifyCount > 0 => events = {}

\* C3: remainingEnergyJ is never negative in any reachable state.
C3_EnergyNeverNegative == m_remainingEnergyJ >= 0

\* C4: whenever an update leaves the recomputed supply voltage at or below
\* minVoltageThreshold, the device models are notified in that update and no
\* periodic update is scheduled, whatever the remaining energy.
C4_LowVoltageDepletes ==
  (UpdateRan /\ m_supplyVoltageV <= m_minVoltTh)
    => (lastNotified /\ events = {})

\* C5: an update on a running clock that finds remainingEnergyJ at or below
\* lowBatteryThresholdFraction x initialEnergyJ notifies the device models in
\* that update and leaves no update event pending; an update that finds it
\* above the bound sends no notification and leaves exactly one event pending.
C5_UpdateNotifiesOrReschedules ==
  UpdateRan =>
    IF AtOrBelowThreshold
      THEN lastNotified /\ events = {}
      ELSE ~lastNotified /\ Cardinality(events) = 1

\* a scheduled tick found the energy below the bound and notified
C5_Witness ==
  /\ UpdateRan /\ lastOp.name = "Tick"
  /\ AtOrBelowThreshold /\ lastNotified /\ events = {}

\* C6: at most one periodic update event is pending at any time, and after an
\* update at time t that leaves the source Active the single pending event is
\* the one the handle refers to, due at t + updateInterval.
C6_SinglePendingEvent ==
  /\ Cardinality(events) <= 1
  /\ (UpdateRan /\ ~AtOrBelowThreshold)
       => events = {[uid |-> m_energyUpdateEvent,
                     ts |-> now + m_energyUpdateInterval]}

\* a manual query at the timestamp of the first scheduled tick
C6_Witness ==
  /\ lastOp.name = "GetRemainingEnergy" /\ ~finished /\ nCalls = 1
  /\ now = m_energyUpdateInterval
  /\ events = {[uid |-> m_energyUpdateEvent,
                ts |-> now + m_energyUpdateInterval]}

\* C7: UpdateEnergySource, GetRemainingEnergy and GetEnergyFraction called
\* after the clock has finished change no field of the source, schedule no
\* event and send no notification.
C7_NoOpAfterFinish ==
  [][(finished /\ lastOp'.name \in UpdateNames)
       => UNCHANGED <<sourceFields, events, notifyCount>>]_vars

\* a query on a finished clock with a stale update time and a pending event
C7_Witness ==
  /\ finished /\ lastOp.name \in ManualNames
  /\ m_lastUpdateTime < now /\ events # {}

\* C8: an update that follows a completed update with no advance of the clock
\* and no Decrease/IncreaseRemainingEnergy in between leaves remainingEnergyJ
\* unchanged (two consecutive getters return the same value), also when the
\* devices' current changed in between.
C8_SameTimeIdempotent ==
  [][(quiet /\ lastOp'.name \in UpdateNames)
       => /\ m_remainingEnergyJ' = m_remainingEnergyJ
          /\ (lastOp.name = "GetRemainingEnergy"
              /\ lastOp'.name = "GetRemainingEnergy") => ret' = ret]_vars

\* two queries at time Step, the current having changed between them
C8_Witness ==
  /\ lastOp.name = "GetRemainingEnergy" /\ ~finished
  /\ now = Step /\ nCalls = 2
  /\ Len(m_timeStamps) >= 3
  /\ m_timeStamps[Len(m_timeStamps)] = now
  /\ m_timeStamps[Len(m_timeStamps) - 1] = now
  /\ m_remainingEnergyJ < m_initialEnergyJ

\* C9: when GetRemainingEnergy or GetEnergyFraction returns on a running
\* clock at time t, lastUpdateTime = t, the load was sampled at t and the
\* value returned is the recomputed remaining energy (resp. its fraction of
\* initialEnergyJ).
C9_GettersAreFresh ==
  (lastOp.name \in {"GetRemainingEnergy", "GetEnergyFraction"}
   /\ ~finished /\ ~aborted)
    => /\ m_lastUpdateTime = now
       /\ m_lastSampleTime = now
       /\ m_previousLoad = deviceCurrent
       /\ ret = IF lastOp.name = "GetRemainingEnergy"
                  THEN <<m_remainingEnergyJ>>
                  ELSE <<(m_remainingEnergyJ * Scale) \div m_initialEnergyJ>>

\* a fraction query after time has passed and energy was drained
C9_Witness ==
  /\ lastOp.name = "GetEnergyFraction" /\ ~finished
  /\ now > 0 /\ m_lastUpdateTime = now
  /\ ret # <<Scale>>

\* C10: Decrease/IncreaseRemainingEnergy (j) with j < 0 abort with
\* remainingEnergyJ unchanged and no notification; with j >= 0 they change
\* remainingEnergyJ by exactly -j resp. +j; in both cases lastUpdateTime,
\* lastAlpha, the load history and the pending update are unchanged.
C10_AdjustContract ==
  [][(lastOp'.name \in {"DecreaseRemainingEnergy", "IncreaseRemainingEnergy"})
       => LET j == lastOp'.args[1]
          IN  /\ UNCHANGED <<m_lastUpdateTime, m_lastUpdateAlpha, m_load,
                             m_timeStamps, m_previousLoad, m_lastSampleTime,
                             m_energyUpdateEvent, events>>
              /\ IF j < 0
                   THEN /\ aborted'
                        /\ UNCHANGED <<m_remainingEnergyJ, notifyCount>>
                   ELSE /\ ~aborted'
                        /\ m_remainingEnergyJ' =
                             IF lastOp'.name = "DecreaseRemainingEnergy"
                               THEN m_remainingEnergyJ - j
                               ELSE m_remainingEnergyJ + j]_vars

\* a negative argument has aborted the process
C10_Witness ==
  /\ aborted
  /\ lastOp.name \in {"DecreaseRemainingEnergy", "IncreaseRemainingEnergy"}
  /\ lastOp.args[1] < 0

\* C11: teardown (DoDispose) cancels the pending scheduled update: on a
\* disposed source no update event is pending.
C11_DisposeCancelsUpdate == disposed => events = {}

\* C12: remainingEnergyJ is non-increasing except for explicit replenishment:
\* no operation other than IncreaseRemainingEnergy leaves it larger than it
\* was before the operation.
C12_MonotoneExceptIncrease ==
  [][lastOp'.name # "IncreaseRemainingEnergy"
       => m_remainingEnergyJ' <= m_remainingEnergyJ]_vars

\* C13: when the total device current is strictly positive at two consecutive
\* updates, the later update applies a non-negative alpha increment and does
\* not raise remainingEnergyJ.
C13_PositiveLoadNeverRaises ==
  [][(lastOp'.name \in UpdateNames /\ ~finished /\ ~aborted'
      /\ m_previousLoad > 0 /\ deviceCurrent > 0)
       => /\ m_lastUpdateAlpha' >= m_lastUpdateAlpha
          /\ m_remainingEnergyJ' <= m_remainingEnergyJ]_vars

\* the step is an update that ran to completion on a running clock
UpdateStep == lastOp'.name \in UpdateNames /\ ~finished /\ ~aborted'

\* the update of this step sees a total current other than the recorded one
LoadChanges == deviceCurrent # m_previousLoad

NonDecreasing(ts) == \A i \in 1 .. Len(ts) - 1 : ts[i] <= ts[i + 1]

\* C14: the number of recorded loads is the number of timestamps minus one,
\* the timestamps are non-decreasing, and the size assertion of Discharge
\* never fails (only a negative energy argument aborts).
C14_HistoryShape ==
  /\ Len(m_load) = Len(m_timeStamps) - 1
  /\ NonDecreasing(m_timeStamps)
  /\ aborted => lastOp.name \in {"DecreaseRemainingEnergy",
                                 "IncreaseRemainingEnergy"}

\* a history of at least two loads that spans some time
C14_Witness ==
  /\ ~aborted /\ Len(m_load) >= 2
  /\ m_timeStamps[1] < m_timeStamps[Len(m_timeStamps)]

\* C15: an update that sees the recorded load appends nothing and only moves
\* the last timestamp to the call time; an update that sees a different load
\* appends exactly one load and one timestamp; adjacent recorded loads differ.
C15_Deduplicates ==
  [][UpdateStep
       => /\ IF LoadChanges
               THEN /\ m_load' = Append(m_load, deviceCurrent)
                    /\ Len(m_timeStamps') = Len(m_timeStamps) + 1
               ELSE /\ m_load' = m_load
                    /\ m_timeStamps' =
                         [m_timeStamps EXCEPT ![Len(m_timeStamps)] = now]
          /\ \A i \in 1 .. Len(m_load') - 1 : m_load'[i] # m_load'[i + 1]]_vars

\* the first tick saw the load that DoInitialize recorded: still one segment
C15_Witness ==
  /\ UpdateRan /\ lastOp.name = "Tick" /\ nCalls = 0
  /\ Len(m_load) = 1
  /\ m_timeStamps = <<0, m_energyUpdateInterval>>

\* C16 as stated: the timestamp of a newly recorded load is the time of the
\* update that first observed it, and the last timestamp is that time too.
C16_StartIsObservationTime ==
  [][(UpdateStep /\ LoadChanges)
       => /\ m_timeStamps'[Len(m_load')] = now
          /\ m_timeStamps'[Len(m_timeStamps')] = now]_vars

\* C16 as amended: the timestamp of a newly recorded load is the time of the
\* previous update (the construction time if there was none), earlier
\* timestamps are kept, and the last timestamp is the time of this update.
C16_StartIsPreviousUpdate ==
  [][UpdateStep
       => /\ Len(m_timeStamps') = Len(m_load') + 1
          /\ m_timeStamps'[Len(m_timeStamps')] = now
          /\ \A i \in 1 .. Len(m_timeStamps) - 1 :
               m_timeStamps'[i] = m_timeStamps[i]
          /\ LoadChanges => m_timeStamps'[Len(m_load')] = m_lastUpdateTime]_vars

\* the load seen first by the update at 2 * Step starts at Step
C16_Witness ==
  /\ UpdateRan /\ lastOp.name \in ManualNames /\ nCalls = 2
  /\ now = 2 * Step
  /\ m_timeStamps = <<0, Step, 2 * Step>>
  /\ Len(m_load) = 2

SegmentAlpha(load, ts, t, k) ==
  (load[k - 1] * RvModelAFunction(t, ts[k], ts[k - 1], m_beta)) \div Scale

RECURSIVE SumSegments(_, _, _, _)
SumSegments(load, ts, t, k) ==
  IF k < 2 THEN 0
  ELSE SegmentAlpha(load, ts, t, k) + SumSegments(load, ts, t, k - 1)

\* C18: the alpha of an update at time t is the sum over all recorded
\* segments of load x A, the segments being contiguous from the construction
\* time 0 to t; for one recorded load it is that load x A (t, t, 0, beta).
C18_AlphaIsSegmentSum ==
  [][UpdateStep
       => /\ m_lastUpdateAlpha' =
               SumSegments(m_load', m_timeStamps', now, Len(m_timeStamps'))
          /\ m_timeStamps'[1] = 0
          /\ m_timeStamps'[Len(m_timeStamps')] = now
          /\ NonDecreasing(m_timeStamps')
          /\ Len(m_load') = 1
               => m_lastUpdateAlpha' =
                    (m_load'[1] * RvModelAFunction(now, now, 0, m_beta))
                      \div Scale]_vars

\* three segments of differing loads, the last one ending now
C18_Witness ==
  /\ UpdateRan /\ Len(m_load) = 3
  /\ m_timeStamps[Len(m_timeStamps)] = now /\ now = 2 * Step
  /\ m_lastUpdateAlpha > 0

\* C19: after every completed update on a running clock drainedCapacity is
\* the alpha of that update divided by 3600.
C19_CapacityFollowsAlpha ==
  UpdateRan => m_drainedCapacity = (m_lastUpdateAlpha * Scale) \div 3600

\* C20: lastAlpha is the alpha of the recorded history at lastUpdateTime in
\* every state, also after an update that clamped the energy to 0 or entered
\* Depleted.
C20_LastAlphaIsAlphaAtLastUpdate ==
  /\ m_lastUpdateAlpha =
       SumSegments(m_load, m_timeStamps, m_lastUpdateTime, Len(m_timeStamps))
  /\ UpdateRan => m_lastUpdateTime = now

\* an update clamped the energy to 0 and notified the devices
C20_Witness ==
  /\ UpdateRan /\ lastNotified
  /\ m_remainingEnergyJ = 0 /\ m_lastUpdateAlpha > 0
  /\ m_drainedCapacity # (m_lastUpdateAlpha * Scale) \div 3600

\* C21: from the first Discharge call onward the history holds at least one
\* load and at least two timestamps, so the single-timestamp branch never
\* reads loads[0] of an empty load list, whatever the first load is.
C21_NeverReadsEmptyLoad ==
  lastOp.name = "Discharge"
    => /\ Len(m_load) >= 1
       /\ Len(m_timeStamps) >= 2

====
